---- MODULE Spec2Model ----
(***************************************************************************)
(* Model of app.py, the Streamlit churn predictor: the cached model load   *)
(* (load_model under st.cache_resource), the single-prediction form        *)
(* (make_form), the scoring call (score_df) and the batch CSV path of      *)
(* main.  Every browser session runs main from top to bottom on each       *)
(* rerun; sessions run in their own threads and share the resource cache.  *)
(***************************************************************************)
EXTENDS Integers, Sequences, FiniteSets, TLC

(* ------------------------------ bounds --------------------------------- *)

\* Sessions that may run main concurrently (Concurrent specification).
NumSessions == 2
\* Longest uploaded table, in rows.
MaxRows == 2
\* Most expected columns an uploaded header lacks.
MaxMissing == 2

(* ------------------------- program constants --------------------------- *)

FEATURE_ORDER ==
    << "age", "gender", "tenure", "usage_frequency", "support_calls", "payment_delay",
       "total_spend", "last_interaction", "subscription_type_Basic",
       "subscription_type_Premium", "subscription_type_Standard",
       "contract_length_Annual", "contract_length_Monthly", "contract_length_Quarterly" >>

DEFAULTS ==
    [ age |-> 20, gender |-> 0, tenure |-> 25, usage_frequency |-> 14, support_calls |-> 4,
      payment_delay |-> 27, total_spend |-> 598, last_interaction |-> 9,
      subscription_type_Basic |-> 1, subscription_type_Premium |-> 0,
      subscription_type_Standard |-> 0,
      contract_length_Annual |-> 0, contract_length_Monthly |-> 1,
      contract_length_Quarterly |-> 0 ]

\* Python's None where a string is expected (err) and the loader's message.
NoneStr == "None"
LoadErrorMsg == "Couldn't load model"

\* Optional values (y_proba, the download): None, or a value.
None == [some |-> FALSE, val |-> <<>>]
Some(v) == [some |-> TRUE, val |-> v]

\* Python's None where a model handle is expected.
NoModel == [id |-> 0, kind |-> "none"]

(* ------------------------------ helpers -------------------------------- *)

Range(s) == { s[i] : i \in 1..Len(s) }

Sessions == 1..NumSessions

\* A cell pandas could not read as a number (text, a blank): the model raises on it.
Malformed == 0 - 1

\* A DataFrame: its column labels in order, and its rows, each aligned with them.
DataFrame(cols, rows) == [columns |-> cols, rows |-> rows]

\* df.empty
Empty(df) == Len(df.rows) = 0 \/ Len(df.columns) = 0

\* Position of label c in an index that holds it.
Loc(cols, c) == CHOOSE j \in 1..Len(cols) : cols[j] = c

(* --------------------------- the classifier ---------------------------- *)

\* The artifact on disk: absent or corrupt, a classifier without predict_proba,
\* or one with it.  The classifier is opaque; it reads its input by position.
Artifacts == {"missing", "plain", "proba"}

RECURSIVE Weighted(_, _)
Weighted(row, n) == IF n = 0 THEN 0 ELSE n * row[n] + Weighted(row, n - 1)

\* predict_proba(X)[:, 1] for one row, in percent.
ProbaOf(row) == (37 * Weighted(row, Len(row)) + 11) % 101

\* predict(X) for one row.
LabelOf(row) == IF ProbaOf(row) >= 50 THEN 1 ELSE 0

\* What the classifier does with a frame: it raises on a malformed cell, and on
\* a frame without rows it may raise or return nothing, as the estimator decides.
Raises(df) ==
    IF \E i \in 1..Len(df.rows) : \E j \in 1..Len(df.columns) : df.rows[i][j] = Malformed
    THEN {TRUE}
    ELSE IF Len(df.rows) = 0 THEN BOOLEAN ELSE {FALSE}

\* hasattr(model, "predict_proba")
HasPredictProba(model) == model.kind = "proba"

\* score_df with zeros standing in for the probabilities a model cannot give.
score_df_zero(model, df) ==
    [ pred  |-> [i \in 1..Len(df.rows) |-> LabelOf(df.rows[i])],
      proba |-> IF HasPredictProba(model)
                THEN Some([i \in 1..Len(df.rows) |-> ProbaOf(df.rows[i])])
                ELSE Some([i \in 1..Len(df.rows) |-> 0]) ]

\* score_df(model, df): (pred, proba)
score_df(model, df) ==
    [ pred  |-> [i \in 1..Len(df.rows) |-> LabelOf(df.rows[i])],
      proba |-> IF HasPredictProba(model)
                THEN Some([i \in 1..Len(df.rows) |-> ProbaOf(df.rows[i])])
                ELSE None ]

(* ----------------------------- load_model ------------------------------ *)

\* The body of load_model: joblib.load either returns the object the artifact
\* holds (n names the deserialization that made it) or raises, and the
\* exception is returned as a message.
load_model(art, n) ==
    IF art = "missing"
    THEN [model |-> NoModel, err |-> LoadErrorMsg]
    ELSE [model |-> [id |-> n, kind |-> art], err |-> NoneStr]

(* ------------------------------ make_form ------------------------------ *)

GenderChoices == {"Female", "Male"}
SubChoices == {"Basic", "Premium", "Standard"}
ClChoices == {"Annual", "Monthly", "Quarterly"}

\* FormValues with the Basic flag left at its default instead of following the radio.
FormValuesStaleFlag(sel) ==
    [ age |-> sel.age,
      gender |-> IF sel.gender_choice = "Male" THEN 1 ELSE 0,
      tenure |-> sel.tenure,
      usage_frequency |-> sel.usage_frequency,
      support_calls |-> sel.support_calls,
      payment_delay |-> sel.payment_delay,
      total_spend |-> sel.total_spend,
      last_interaction |-> sel.last_interaction,
      subscription_type_Basic |-> DEFAULTS.subscription_type_Basic,
      subscription_type_Premium |-> IF sel.sub_choice = "Premium" THEN 1 ELSE 0,
      subscription_type_Standard |-> IF sel.sub_choice = "Standard" THEN 1 ELSE 0,
      contract_length_Annual |-> IF sel.cl_choice = "Annual" THEN 1 ELSE 0,
      contract_length_Monthly |-> IF sel.cl_choice = "Monthly" THEN 1 ELSE 0,
      contract_length_Quarterly |-> IF sel.cl_choice = "Quarterly" THEN 1 ELSE 0 ]

\* The dict v that make_form fills from the widgets.
FormValues(sel) ==
    [ age |-> sel.age,
      gender |-> IF sel.gender_choice = "Male" THEN 1 ELSE 0,
      tenure |-> sel.tenure,
      usage_frequency |-> sel.usage_frequency,
      support_calls |-> sel.support_calls,
      payment_delay |-> sel.payment_delay,
      total_spend |-> sel.total_spend,
      last_interaction |-> sel.last_interaction,
      subscription_type_Basic |-> IF sel.sub_choice = "Basic" THEN 1 ELSE 0,
      subscription_type_Premium |-> IF sel.sub_choice = "Premium" THEN 1 ELSE 0,
      subscription_type_Standard |-> IF sel.sub_choice = "Standard" THEN 1 ELSE 0,
      contract_length_Annual |-> IF sel.cl_choice = "Annual" THEN 1 ELSE 0,
      contract_length_Monthly |-> IF sel.cl_choice = "Monthly" THEN 1 ELSE 0,
      contract_length_Quarterly |-> IF sel.cl_choice = "Quarterly" THEN 1 ELSE 0 ]

\* pd.DataFrame([v], columns=FEATURE_ORDER): one row, the dict read by label.
FrameOfDict(v, cols) == DataFrame(cols, << [j \in 1..Len(cols) |-> v[cols[j]]] >>)

\* make_form(): the one-row frame when Predict was clicked, else an empty frame.
make_form(sel) ==
    IF sel.predict_clicked
    THEN FrameOfDict(FormValues(sel), FEATURE_ORDER)
    ELSE DataFrame(FEATURE_ORDER, <<>>)

(* --------------------------- the batch path ---------------------------- *)

\* c not in df.columns, for each expected c
NotIn(df) == [c \in Range(FEATURE_ORDER) |-> c \notin Range(df.columns)]

\* Missing that stops at the first absent column.
MissingFirstOnly(df) ==
    LET m == SelectSeq(FEATURE_ORDER, LAMBDA c : NotIn(df)[c])
    IN  IF m = <<>> THEN <<>> ELSE << m[1] >>

\* missing = [c for c in FEATURE_ORDER if c not in df.columns]
Missing(df) == SelectSeq(FEATURE_ORDER, LAMBDA c : NotIn(df)[c])

\* Project by position (the first columns of the file) instead of by label.
ProjectByPosition(df, cols) ==
    DataFrame(cols,
              [i \in 1..Len(df.rows) |-> [j \in 1..Len(cols) |-> df.rows[i][j]]])

\* df.reindex(columns=cols): as Project, with an absent column filled with NaN.
Reindex(df, cols) ==
    DataFrame(cols,
              [i \in 1..Len(df.rows) |->
                  [j \in 1..Len(cols) |->
                      IF cols[j] \in Range(df.columns)
                      THEN df.rows[i][Loc(df.columns, cols[j])]
                      ELSE Malformed]])

\* df[FEATURE_ORDER]: a new frame of the named columns, in the order named.
Project(df, cols) ==
    DataFrame(cols,
              [i \in 1..Len(df.rows) |->
                  [j \in 1..Len(cols) |-> df.rows[i][Loc(df.columns, cols[j])]]])

\* AddColumn with the values laid against the rows in reverse.
AddColumnReversed(df, name, vals) ==
    DataFrame(Append(df.columns, name),
              [i \in 1..Len(df.rows) |-> Append(df.rows[i], vals[Len(vals) + 1 - i])])

\* df[name] = values: a new last column, filled row by row.
AddColumn(df, name, vals) ==
    DataFrame(Append(df.columns, name),
              [i \in 1..Len(df.rows) |-> Append(df.rows[i], vals[i])])

\* df.to_csv(index=False): the header line, then one line per row.
to_csv(df) == <<df.columns>> \o df.rows

(* ------------------------------- inputs -------------------------------- *)

\* Widget states of the form.  The number inputs hold their defaults; Age
\* also takes its minimum.
Ages == {0, DEFAULTS.age}

Selection(age, g, sub, cl, clicked) ==
    [ age |-> age, gender_choice |-> g,
      tenure |-> DEFAULTS.tenure, usage_frequency |-> DEFAULTS.usage_frequency,
      support_calls |-> DEFAULTS.support_calls, payment_delay |-> DEFAULTS.payment_delay,
      total_spend |-> DEFAULTS.total_spend, last_interaction |-> DEFAULTS.last_interaction,
      sub_choice |-> sub, cl_choice |-> cl, predict_clicked |-> clicked ]

Forms ==
    { Selection(a, g, sub, cl, k) :
        a \in Ages, g \in GenderChoices, sub \in SubChoices, cl \in ClChoices, k \in BOOLEAN }

\* The form as it first renders (index=0 and index=1 of the radios).
DefaultForms == { Selection(DEFAULTS.age, "Female", "Basic", "Monthly", k) : k \in BOOLEAN }

\* Uploaded tables.  A header is FEATURE_ORDER less some columns, followed by
\* unexpected columns, the whole rotated; a row is one of three kinds.
ExtraColumns == { <<>>, <<"customer_name">> }
AllColumns == FEATURE_ORDER \o <<"customer_name">>
Rotations == {0, 1, 5}
RowKinds == {"a", "b", "text"}

Rotate(seq, k) == SubSeq(seq, k + 1, Len(seq)) \o SubSeq(seq, 1, k)

DropSets == { d \in SUBSET Range(FEATURE_ORDER) : Cardinality(d) <= MaxMissing }

Kept(drop) == [c \in Range(FEATURE_ORDER) |-> c \notin drop]
Header(drop, extra, rot) ==
    Rotate(SelectSeq(FEATURE_ORDER, LAMBDA c : Kept(drop)[c]) \o extra, rot)

\* The cell of a row of kind k under label c.  An unexpected column holds
\* text; a row of kind "text" also holds text under total_spend.
Cell(k, c) ==
    IF c \notin Range(FEATURE_ORDER) THEN Malformed
    ELSE IF k = "a" THEN Loc(AllColumns, c) % 3
    ELSE IF k = "b" THEN (2 * Loc(AllColumns, c) + 1) % 5
    ELSE IF c = "total_spend" THEN Malformed
    ELSE Loc(AllColumns, c) % 2

Table(header, kinds) ==
    DataFrame(header,
              [i \in 1..Len(kinds) |-> [j \in 1..Len(header) |-> Cell(kinds[i], header[j])]])

KindSeqs(S, n) == UNION { [1..m -> S] : m \in 0..n }

ValidTables ==
    { Table(Header({}, e, r), ks) :
        e \in ExtraColumns, r \in Rotations, ks \in KindSeqs(RowKinds, MaxRows) }

InvalidTables ==
    { Table(Header(d, e, 0), ks) :
        d \in DropSets \ {{}}, e \in ExtraColumns, ks \in KindSeqs({"a"}, 1) }

Tables == ValidTables \cup InvalidTables

\* The uploads of the FormSpec specification: one table of each sort.
FewTables ==
    { Table(Header({}, <<"customer_name">>, 1), <<"b">>),
      Table(Header({"total_spend"}, <<>>, 0), <<"a">>) }

(* -------------------------------- state -------------------------------- *)

VARIABLES
    artifact,   \* what best_churn_model.joblib holds on disk
    cache,      \* the st.cache_resource entry of load_model(): None or its result
    lock,       \* the session computing the cache entry, 0 when none
    loads,      \* joblib.load executions so far
    returned,   \* every result load_model() has returned to a caller
    pc,         \* where each session's run of main stands
    ret,        \* (model, err) of this run
    call,       \* how this run's load_model() call was served
    errors,     \* st.error messages of this run
    sel,        \* the form's widget state of this run
    single,     \* what tab 1 shows
    upload,     \* the uploaded file of this run
    batch,      \* what tab 2 shows
    calls       \* the score_df invocations of this run

vars == << artifact, cache, lock, loads, returned, pc, ret, call, errors, sel,
           single, upload, batch, calls >>

shared == << artifact, cache, lock, loads, returned >>
render == << errors, sel, single, upload, batch, calls >>

NoResult == [model |-> NoModel, err |-> NoneStr]
NoCall == [done |-> FALSE, via |-> "none", disk |-> "missing"]
NoSingle == [status |-> "none", success |-> None, info |-> None]
NoBatch == [status |-> "none", df |-> None, shown |-> None, download |-> None]
NoSelection == Selection(DEFAULTS.age, "Female", "Basic", "Monthly", FALSE)

Init ==
    /\ artifact \in Artifacts
    /\ cache = None
    /\ lock = 0
    /\ loads = 0
    /\ returned = {}
    /\ pc = [s \in Sessions |-> "idle"]
    /\ ret = [s \in Sessions |-> NoResult]
    /\ call = [s \in Sessions |-> NoCall]
    /\ errors = [s \in Sessions |-> <<>>]
    /\ sel = [s \in Sessions |-> NoSelection]
    /\ single = [s \in Sessions |-> NoSingle]
    /\ upload = [s \in Sessions |-> None]
    /\ batch = [s \in Sessions |-> NoBatch]
    /\ calls = [s \in Sessions |-> <<>>]

(* ---------------------------- the two tabs ----------------------------- *)

\* st.error(...): the text and, for the schema error, the list it formats.
ErrorBox(text, list) == [text |-> text, list |-> list]

\* One score_df invocation: the tab that made it and the frame it passed.
Invocation(path, df) == [path |-> path, df |-> df]

\* The check on err left out.
LoadFailedUnchecked(r) == FALSE

\* if err: (the message is a non-empty string or None)
LoadFailed(r) == r.err \notin {NoneStr, ""}

\* Tab 1 below make_form(): nothing for an empty frame; else one score_df
\* call, the prediction, and the probability when there is one.
single_tab(model, df) ==
    IF Empty(df)
    THEN { [single |-> NoSingle, calls |-> <<>>] }
    ELSE { IF raised
           THEN [ single |-> [NoSingle EXCEPT !.status = "raised"],
                  calls |-> << Invocation("single", df) >> ]
           ELSE LET r == score_df(model, df)
                IN  [ single |-> [ status |-> "shown",
                                   success |-> Some(r.pred[1]),
                                   info |-> IF r.proba.some
                                            THEN Some(r.proba.val[1]) ELSE None ],
                      calls |-> << Invocation("single", df) >> ]
           : raised \in Raises(df) }

\* df.head(20)
HeadRows == 20
head(df, n) == DataFrame(df.columns, SubSeq(df.rows, 1, IF Len(df.rows) < n THEN Len(df.rows) ELSE n))

\* Scored with score_df called row by row.
ScoredPerRow(model, X) ==
    { IF raised
      THEN [ batch |-> [NoBatch EXCEPT !.status = "raised"],
             errors |-> <<>>,
             calls |-> << Invocation("batch", X) >> ]
      ELSE LET r == score_df(model, X)
               withPred == AddColumn(X, "churn_pred", r.pred)
               out == IF r.proba.some
                      THEN AddColumn(withPred, "churn_proba", r.proba.val)
                      ELSE withPred
           IN  [ batch |-> [ status |-> "scored", df |-> Some(out),
                             shown |-> Some(head(out, HeadRows)),
                             download |-> Some(to_csv(out)) ],
                 errors |-> <<>>,
                 calls |-> [i \in 1..Len(X.rows) |->
                              Invocation("batch", DataFrame(X.columns, << X.rows[i] >>))] ]
      : raised \in Raises(X) }

\* The else branch of tab 2: one score_df call over the projected frame X,
\* the new columns, the preview and the download.
Scored(model, X) ==
    { IF raised
      THEN [ batch |-> [NoBatch EXCEPT !.status = "raised"],
             errors |-> <<>>,
             calls |-> << Invocation("batch", X) >> ]
      ELSE LET r == score_df(model, X)
               withPred == AddColumn(X, "churn_pred", r.pred)
               out == IF r.proba.some
                      THEN AddColumn(withPred, "churn_proba", r.proba.val)
                      ELSE withPred
           IN  [ batch |-> [ status |-> "scored", df |-> Some(out),
                             shown |-> Some(head(out, HeadRows)),
                             download |-> Some(to_csv(out)) ],
                 errors |-> <<>>,
                 calls |-> << Invocation("batch", X) >> ]
      : raised \in Raises(X) }

\* batch_tab that scores whatever columns the table has, without the check.
batch_tab_unchecked(model, df) == Scored(model, Reindex(df, FEATURE_ORDER))

\* Tab 2 for an uploaded table df: the missing columns are reported, or the
\* table is projected and scored.
batch_tab(model, df) ==
    LET missing == Missing(df)
    IN  IF missing # <<>>
        THEN { [ batch |-> [NoBatch EXCEPT !.status = "schema_error"],
                 errors |-> << ErrorBox("Missing columns", missing) >>,
                 calls |-> <<>> ] }
        ELSE Scored(model, Project(df, FEATURE_ORDER))

(* ------------------------------- actions ------------------------------- *)

\* The artifact file is replaced, removed or repaired while the server runs.
ArtifactChange ==
    /\ \E a \in Artifacts \ {artifact} : artifact' = a
    /\ UNCHANGED << cache, lock, loads, returned, pc, ret, call, render >>

\* A widget interaction (or the first page load) reruns main from the top.
Rerun(s) ==
    /\ pc[s] \in {"idle", "done", "stopped"}
    /\ pc' = [pc EXCEPT ![s] = "lookup"]
    /\ ret' = [ret EXCEPT ![s] = NoResult]
    /\ call' = [call EXCEPT ![s] = NoCall]
    /\ errors' = [errors EXCEPT ![s] = <<>>]
    /\ sel' = [sel EXCEPT ![s] = NoSelection]
    /\ single' = [single EXCEPT ![s] = NoSingle]
    /\ upload' = [upload EXCEPT ![s] = None]
    /\ batch' = [batch EXCEPT ![s] = NoBatch]
    /\ calls' = [calls EXCEPT ![s] = <<>>]
    /\ UNCHANGED shared

\* load_model without the decorator: no call finds an entry.
Uncached(c) == FALSE

\* st.cache_resource: is there an entry for load_model()?
Cached(c) == c.some

\* An entry only for a load that succeeded.
EntryOnSuccess(v) == IF v.err = NoneStr THEN Some(v) ELSE None

\* st.cache_resource: the entry made of what the function returned, be it a
\* model or an error message (only a raised exception leaves no entry).
Entry(v) == Some(v)

\* load_model() returns v to session s.
Return(s, v, via) ==
    /\ ret' = [ret EXCEPT ![s] = v]
    /\ call' = [call EXCEPT ![s] = [done |-> TRUE, via |-> via, disk |-> artifact]]
    /\ returned' = returned \cup {v}
    /\ pc' = [pc EXCEPT ![s] = "gate"]

\* model, err = load_model(): the cache is read first, without the lock.
Lookup(s) ==
    /\ pc[s] = "lookup"
    /\ IF Cached(cache)
       THEN /\ Return(s, cache.val, "lookup")
            /\ UNCHANGED << artifact, cache, lock, loads >>
       ELSE /\ pc' = [pc EXCEPT ![s] = "acquire"]
            /\ UNCHANGED << shared, ret, call >>
    /\ UNCHANGED render

\* On a miss the session takes the entry's compute lock and reads the cache
\* again: another session may have filled it meanwhile.
Acquire(s) ==
    /\ pc[s] = "acquire"
    /\ lock = 0
    /\ IF Cached(cache)
       THEN /\ Return(s, cache.val, "recheck")
            /\ UNCHANGED << artifact, cache, lock, loads >>
       ELSE /\ lock' = s
            /\ pc' = [pc EXCEPT ![s] = "compute"]
            /\ UNCHANGED << artifact, cache, loads, returned, ret, call >>
    /\ UNCHANGED render

\* Holding the lock, the session runs the body of load_model, stores what it
\* returned and releases the lock.
Compute(s) ==
    /\ pc[s] = "compute"
    /\ lock = s
    /\ LET v == load_model(artifact, loads + 1)
       IN  /\ loads' = loads + 1
           /\ cache' = Entry(v)
           /\ Return(s, v, "compute")
    /\ lock' = 0
    /\ UNCHANGED << artifact, render >>

\* if err: st.error(err); st.stop()
Gate(s) ==
    /\ pc[s] = "gate"
    /\ IF LoadFailed(ret[s])
       THEN /\ errors' = [errors EXCEPT ![s] = Append(@, ErrorBox(ret[s].err, <<>>))]
            /\ pc' = [pc EXCEPT ![s] = "stopped"]
       ELSE /\ pc' = [pc EXCEPT ![s] = "tab1"]
            /\ UNCHANGED errors
    /\ UNCHANGED << shared, ret, call, sel, single, upload, batch, calls >>

\* with tab1: the form, and the prediction when Predict was clicked.  An
\* exception out of the model ends the run.
Tab1(s, forms) ==
    /\ pc[s] = "tab1"
    /\ \E f \in forms : \E o \in single_tab(ret[s].model, make_form(f)) :
         /\ sel' = [sel EXCEPT ![s] = f]
         /\ single' = [single EXCEPT ![s] = o.single]
         /\ calls' = [calls EXCEPT ![s] = @ \o o.calls]
         /\ pc' = [pc EXCEPT ![s] = IF o.single.status = "raised" THEN "done" ELSE "tab2"]
    /\ UNCHANGED << shared, ret, call, errors, upload, batch >>

\* with tab2: if file: df = pd.read_csv(file), then the batch path.
Tab2(s, tables) ==
    /\ pc[s] = "tab2"
    /\ \E file \in {None} \cup { Some(t) : t \in tables } :
         /\ upload' = [upload EXCEPT ![s] = file]
         /\ IF file.some
            THEN \E o \in batch_tab(ret[s].model, file.val) :
                   /\ batch' = [batch EXCEPT ![s] = o.batch]
                   /\ errors' = [errors EXCEPT ![s] = @ \o o.errors]
                   /\ calls' = [calls EXCEPT ![s] = @ \o o.calls]
            ELSE UNCHANGED << batch, errors, calls >>
    /\ pc' = [pc EXCEPT ![s] = "done"]
    /\ UNCHANGED << shared, ret, call, sel, single >>

\* One session, rerun any number of times, over all the uploads.
Next ==
    \/ ArtifactChange
    \/ Rerun(1)
    \/ Lookup(1)
    \/ Acquire(1)
    \/ Compute(1)
    \/ Gate(1)
    \/ Tab1(1, DefaultForms)
    \/ Tab2(1, Tables)

Spec == Init /\ [][Next]_vars

\* One session, over all the states of the form.
FormNext ==
    \/ ArtifactChange
    \/ Rerun(1)
    \/ Lookup(1)
    \/ Acquire(1)
    \/ Compute(1)
    \/ Gate(1)
    \/ Tab1(1, Forms)
    \/ Tab2(1, FewTables)

FormSpec == Init /\ [][FormNext]_vars

\* Several sessions at once, each with the default form and no upload.
ConcurrentNext ==
    \/ ArtifactChange
    \/ \E s \in Sessions : Rerun(s)
    \/ \E s \in Sessions : Lookup(s)
    \/ \E s \in Sessions : Acquire(s)
    \/ \E s \in Sessions : Compute(s)
    \/ \E s \in Sessions : Gate(s)
    \/ \E s \in Sessions : Tab1(s, DefaultForms)
    \/ \E s \in Sessions : Tab2(s, {})

Concurrent == Init /\ [][ConcurrentNext]_vars

(* ------------------------------ properties ----------------------------- *)

Expected == Range(FEATURE_ORDER)

\* The table has every expected column.
SchemaValid(t) == Expected \subseteq Range(t.columns)

\* Tab 2 of session s has dealt with an uploaded file.
Uploaded(s) == pc[s] = "done" /\ upload[s].some

\* The score_df invocations of session s from one tab.
CallsFrom(s, path) == SelectSeq(calls[s], LAMBDA c : c.path = path)

\* The value row i of table t holds under label c.
At(t, i, c) == t.rows[i][Loc(t.columns, c)]

\* Row i of t as the model must receive it.
Features(t, i) == [j \in 1..Len(FEATURE_ORDER) |-> At(t, i, FEATURE_ORDER[j])]

\* No expected cell of t is malformed, and t has a row.
Clean(t) ==
    /\ Len(t.rows) > 0
    /\ \A i \in 1..Len(t.rows) : \A c \in Expected : At(t, i, c) # Malformed

\* t without its unexpected columns, the others in the order of the file.
KeptPositions(t) ==
    SelectSeq([j \in 1..Len(t.columns) |-> j], LAMBDA j : t.columns[j] \in Expected)
Restrict(t) ==
    LET pos == KeptPositions(t)
    IN  DataFrame([k \in 1..Len(pos) |-> t.columns[pos[k]]],
                  [i \in 1..Len(t.rows) |-> [k \in 1..Len(pos) |-> t.rows[i][pos[k]]]])

\* The schema errors session s shows.
SchemaErrors(s) == SelectSeq(errors[s], LAMBDA e : e.text = "Missing columns")

\* C1: for every uploaded table, the schema error is shown if and only if
\* some expected column is absent from the header, and its list is exactly
\* the absent columns, each once, in FEATURE_ORDER order.
C1_SchemaValidationComplete ==
    \A s \in Sessions :
      Uploaded(s) =>
        LET absent == Expected \ Range(upload[s].val.columns)
            boxes == SchemaErrors(s)
        IN  IF absent = {}
            THEN boxes = <<>> /\ batch[s].status # "schema_error"
            ELSE /\ batch[s].status = "schema_error"
                 /\ Len(boxes) = 1
                 /\ Range(boxes[1].list) = absent
                 /\ \A i, j \in 1..Len(boxes[1].list) :
                      i < j => Loc(FEATURE_ORDER, boxes[1].list[i])
                                 < Loc(FEATURE_ORDER, boxes[1].list[j])

\* A table that lacks two columns and has an unexpected one was rejected.
C1_Witness ==
    \E s \in Sessions :
      /\ Uploaded(s)
      /\ "customer_name" \in Range(upload[s].val.columns)
      /\ Len(SchemaErrors(s)) = 1
      /\ Len(SchemaErrors(s)[1].list) = 2

\* C2: when the uploaded table lacks an expected column, score_df is never
\* called from the batch tab, no augmented table exists, none is shown and no
\* download is offered.
C2_InvalidRejectedWholesale ==
    \A s \in Sessions :
      (Uploaded(s) /\ ~SchemaValid(upload[s].val)) =>
        /\ CallsFrom(s, "batch") = <<>>
        /\ ~batch[s].df.some
        /\ ~batch[s].shown.some
        /\ ~batch[s].download.some

\* An invalid table with a row was uploaded in a run that scored the form.
C2_Witness ==
    \E s \in Sessions :
      /\ Uploaded(s)
      /\ ~SchemaValid(upload[s].val)
      /\ Len(upload[s].val.rows) = 1
      /\ single[s].status = "shown"
      /\ batch[s].status = "schema_error"

\* C3: load_model returns either a model and no error or no model and an
\* error; a run whose load failed shows the message, stops and never calls
\* score_df; a run that called score_df holds a model and no error.
C3_LoadFailureBlocksScoring ==
    \A s \in Sessions :
      /\ call[s].done =>
           \/ ret[s].err = NoneStr /\ ret[s].model.kind \in {"plain", "proba"}
           \/ ret[s].err = LoadErrorMsg /\ ret[s].model = NoModel
      /\ (call[s].done /\ ret[s].err # NoneStr /\ pc[s] # "gate") =>
           /\ pc[s] = "stopped"
           /\ errors[s] = << ErrorBox(ret[s].err, <<>>) >>
           /\ calls[s] = <<>>
           /\ single[s] = NoSingle
           /\ batch[s] = NoBatch
      /\ calls[s] # <<>> =>
           /\ call[s].done
           /\ ret[s].err = NoneStr
           /\ ret[s].model # NoModel

\* A run stopped on the load error.
C3_Witness ==
    \E s \in Sessions :
      /\ pc[s] = "stopped"
      /\ ret[s].err = LoadErrorMsg
      /\ Len(errors[s]) = 1

\* C4: joblib.load runs at most once, whatever the interleaving of the
\* sessions, and all calls of load_model return one and the same result.
C4_AtMostOneLoad ==
    /\ loads <= 1
    /\ Cardinality(returned) <= 1
    /\ \A s, t \in Sessions : (call[s].done /\ call[t].done) => ret[s] = ret[t]

\* Two sessions missed the cache together: one loaded the model, the other
\* found it on reading the cache again under the lock.
C4_Witness ==
    \E s, t \in Sessions :
      /\ s # t
      /\ call[s].done /\ call[s].via = "compute"
      /\ call[t].done /\ call[t].via = "recheck"
      /\ ret[s].model.id = 1
      /\ ret[t] = ret[s]

\* The state of the model gateway.
GatewayState ==
    IF ~cache.some THEN "Unloaded"
    ELSE IF cache.val.err = NoneStr THEN "Loaded" ELSE "Failed"

\* C5: Loaded and Failed are absorbing: once the gateway has left Unloaded
\* its state and its entry never change and no load is attempted again, and
\* once load_model has returned a result every later call returns that result.
C5_GatewayAbsorbing ==
    /\ [][GatewayState # "Unloaded" =>
            (GatewayState' = GatewayState /\ cache' = cache /\ loads' = loads)]_vars
    /\ [][returned # {} => (returned' = returned /\ loads' = loads)]_vars

\* load_model returned the cached failure while a loadable artifact was on disk.
C5_Witness ==
    \E s \in Sessions :
      /\ call[s].done
      /\ call[s].via = "lookup"
      /\ call[s].disk = "proba"
      /\ ret[s].err = LoadErrorMsg
      /\ loads = 1

\* C6: for a table with every expected column, the frame passed to the model
\* has the FEATURE_ORDER columns in FEATURE_ORDER order, each holding the
\* values the table has under that label; the outcome is the outcome for the
\* table without its unexpected columns; and no unexpected column is exported.
C6_ProjectionIgnoresExtrasAndOrder ==
    \A s \in Sessions :
      (Uploaded(s) /\ SchemaValid(upload[s].val)) =>
        LET t == upload[s].val
            made == CallsFrom(s, "batch")
        IN  /\ Len(made) = 1
            /\ made[1].df.columns = FEATURE_ORDER
            /\ Len(made[1].df.rows) = Len(t.rows)
            /\ \A i \in 1..Len(t.rows) : made[1].df.rows[i] = Features(t, i)
            /\ \E o \in batch_tab(ret[s].model, Restrict(t)) : o.batch = batch[s]
            /\ batch[s].status = "scored" =>
                 /\ Range(batch[s].df.val.columns) \cap (Range(t.columns) \ Expected) = {}
                 /\ batch[s].download.val[1] = batch[s].df.val.columns

\* A table with an unexpected column, its columns out of order, was scored,
\* and its two rows got different predictions.
C6_Witness ==
    \E s \in Sessions :
      /\ Uploaded(s)
      /\ batch[s].status = "scored"
      /\ "customer_name" \in Range(upload[s].val.columns)
      /\ upload[s].val.columns[1] # FEATURE_ORDER[1]
      /\ Len(upload[s].val.rows) = 2
      /\ LET out == batch[s].df.val
         IN  At(out, 1, "churn_pred") # At(out, 2, "churn_pred")

\* C7: the probability is there exactly when the model has predict_proba:
\* tab 1 shows the prediction, and the probability only then; the scored
\* table has churn_pred, and churn_proba only then; a model without
\* predict_proba still scores the form.
C7_ProbabilityIffPredictProba ==
    \A s \in Sessions :
      /\ single[s].status = "shown" =>
           /\ single[s].success.some
           /\ single[s].info.some <=> ret[s].model.kind = "proba"
      /\ (pc[s] \in {"tab2", "done"} /\ sel[s].predict_clicked) =>
           single[s].status = "shown"
      /\ batch[s].status = "scored" =>
           LET cols == batch[s].df.val.columns
           IN  /\ "churn_pred" \in Range(cols)
               /\ "churn_proba" \in Range(cols) <=> ret[s].model.kind = "proba"
               /\ Len(cols) = Len(FEATURE_ORDER)
                                + (IF ret[s].model.kind = "proba" THEN 2 ELSE 1)

\* A model without predict_proba scored the form and a table with rows.
C7_Witness ==
    \E s \in Sessions :
      /\ ret[s].model.kind = "plain"
      /\ single[s].status = "shown"
      /\ ~single[s].info.some
      /\ batch[s].status = "scored"
      /\ Len(batch[s].df.val.rows) > 0
      /\ "churn_proba" \notin Range(batch[s].df.val.columns)

\* C8: a valid table whose expected cells are all well-formed is scored; the
\* scored table has as many rows as the uploaded one, and its row i holds the
\* feature values of row i of the upload with the label, and the probability
\* when there is one, that the model gives for that row; the download has
\* one line per row under the header.
C8_RowCountAndOrderPreserved ==
    \A s \in Sessions :
      /\ (Uploaded(s) /\ SchemaValid(upload[s].val) /\ Clean(upload[s].val)) =>
           batch[s].status = "scored"
      /\ batch[s].status = "scored" =>
           LET t == upload[s].val
               out == batch[s].df.val
               n == Len(FEATURE_ORDER)
           IN  /\ Len(out.rows) = Len(t.rows)
               /\ Len(batch[s].download.val) = Len(t.rows) + 1
               /\ \A i \in 1..Len(t.rows) :
                    /\ SubSeq(out.rows[i], 1, n) = Features(t, i)
                    /\ out.rows[i][n + 1] = LabelOf(Features(t, i))
                    /\ ret[s].model.kind = "proba" =>
                         out.rows[i][n + 2] = ProbaOf(Features(t, i))
                    /\ batch[s].download.val[i + 1] = out.rows[i]

\* A table of two rows with different labels was scored, probabilities included.
C8_Witness ==
    \E s \in Sessions :
      /\ batch[s].status = "scored"
      /\ ret[s].model.kind = "proba"
      /\ Len(upload[s].val.rows) = 2
      /\ LET out == batch[s].df.val
         IN  /\ At(out, 1, "churn_pred") = 0
             /\ At(out, 2, "churn_pred") = 1

\* C9: for a valid table of N rows the batch tab calls score_df exactly once,
\* with a frame of N rows, and the run makes that call plus one for the form
\* when Predict was clicked: the number of calls does not depend on N.
C9_OneGatewayCallPerBatch ==
    \A s \in Sessions :
      (Uploaded(s) /\ SchemaValid(upload[s].val)) =>
        /\ Len(CallsFrom(s, "batch")) = 1
        /\ Len(CallsFrom(s, "batch")[1].df.rows) = Len(upload[s].val.rows)
        /\ Len(calls[s]) = 1 + (IF sel[s].predict_clicked THEN 1 ELSE 0)

\* A table of more than one row was scored with one call.
C9_Witness ==
    \E s \in Sessions :
      /\ Uploaded(s)
      /\ batch[s].status = "scored"
      /\ Len(upload[s].val.rows) >= 2
      /\ Len(CallsFrom(s, "batch")) = 1
      /\ Len(calls[s]) = 1

SubFlags ==
    [ Basic |-> "subscription_type_Basic", Premium |-> "subscription_type_Premium",
      Standard |-> "subscription_type_Standard" ]
ClFlags ==
    [ Annual |-> "contract_length_Annual", Monthly |-> "contract_length_Monthly",
      Quarterly |-> "contract_length_Quarterly" ]

\* C10: score_df is called from tab 1 exactly when Predict was clicked, and
\* otherwise nothing is shown; the frame it gets has one row under the 14
\* FEATURE_ORDER columns in order, whose subscription flags sum to 1, whose
\* contract flags sum to 1, and whose flag for each selected category is 1.
C10_FormOneHot ==
    \A s \in Sessions :
      pc[s] \in {"tab2", "done"} =>
        LET made == CallsFrom(s, "single")
        IN  /\ Len(made) = (IF sel[s].predict_clicked THEN 1 ELSE 0)
            /\ ~sel[s].predict_clicked => single[s] = NoSingle
            /\ \A k \in 1..Len(made) :
                 LET df == made[k].df
                 IN  /\ df.columns = FEATURE_ORDER
                     /\ Len(df.rows) = 1
                     /\ Len(df.rows[1]) = Len(FEATURE_ORDER)
                     /\ At(df, 1, SubFlags.Basic) + At(df, 1, SubFlags.Premium)
                          + At(df, 1, SubFlags.Standard) = 1
                     /\ At(df, 1, ClFlags.Annual) + At(df, 1, ClFlags.Monthly)
                          + At(df, 1, ClFlags.Quarterly) = 1
                     /\ At(df, 1, SubFlags[sel[s].sub_choice]) = 1
                     /\ At(df, 1, ClFlags[sel[s].cl_choice]) = 1
                     /\ At(df, 1, "age") = sel[s].age
                     /\ At(df, 1, "gender") = (IF sel[s].gender_choice = "Male" THEN 1 ELSE 0)

\* Predict was clicked with Premium, Quarterly and Male selected.
C10_Witness ==
    \E s \in Sessions :
      /\ sel[s].predict_clicked
      /\ sel[s].sub_choice = "Premium"
      /\ sel[s].cl_choice = "Quarterly"
      /\ sel[s].gender_choice = "Male"
      /\ single[s].status = "shown"
      /\ Len(CallsFrom(s, "single")) = 1

====
